---- MODULE Spec2Model ----
(***************************************************************************)
(* Epic Games "Free Now" checker (src/script.py): the orchestrator main(), *)
(* the catalog fetcher (fetch_free_now, http_get_json), the promotion      *)
(* extractor (parse_free_now_items) and the state store (load_state,       *)
(* save_state), as a state machine over serialized invocations.            *)
(*                                                                         *)
(* Time is counted in whole hours.  A date string of the payload is a      *)
(* record [kind, wall, off]: wall is the wall-clock reading written in the *)
(* string, off its UTC offset; the instant it denotes is wall - off.       *)
(***************************************************************************)
EXTENDS Integers, Sequences, FiniteSets, TLC

\* ---------------------------------------------------------------- bounds
\* The wall clock runs over 0..MaxClock.
MaxClock == 3
\* SpecHttp draws http_get_json's attempts from 1..MaxAttempts.
MaxAttempts == 3
\* SpecHttp draws http_get_json's backoff from 1..MaxBackoff.
MaxBackoff == 2

\* ---------------------------------------------------- program constants
\* len(EPIC_JSON_ENDPOINTS)
NumEndpoints == 2
\* http_get_json(..., attempts=3, ...)
DefaultAttempts == 3
\* http_get_json(..., backoff=2.0)
DefaultBackoff == 2

\* Values MIN_HOURS_BETWEEN_RUNS takes in the model (0 disables the guard).
MinHoursValues == {0, 2}

\* Python's None, for a last_success_iso or an exit status that is not set.
None == -1

\* ------------------------------------------------------------ date strings
AbsentDate == [kind |-> "absent", wall |-> 0, off |-> 0]
MalformedDate == [kind |-> "malformed", wall |-> 0, off |-> 0]
NaiveDate(w) == [kind |-> "naive", wall |-> w, off |-> 0]
AwareDate(w, o) == [kind |-> "aware", wall |-> w, off |-> o]

\* datetime.fromisoformat(s.replace("Z", "+00:00")) raises on a malformed string.
FromIsoRaises(d) == d.kind = "malformed"

\* The instant of an offset-aware datetime.
Instant(d) == d.wall - d.off

\* Comparing an offset-naive datetime with the aware now_utc raises TypeError.
CompareRaises(d) == d.kind = "naive"

\* datetime.isoformat(): the wall-clock reading followed by the offset; the
\* datetime is never converted to UTC, so the string keeps the input's offset.
IsoFormat(d) == <<d.wall, d.off>>

\* Order of the offset suffixes as strings: "+hh:00" sorts before "-hh:00"
\* ('+' is 0x2B, '-' is 0x2D), and within a sign by the digits.
OffsetRank(o) == IF o >= 0 THEN o ELSE 100 - o

\* a < b for two isoformat() strings of equal date width.
IsoStrLess(a, b) ==
    \/ a[1] < b[1]
    \/ a[1] = b[1] /\ OffsetRank(a[2]) < OffsetRank(b[2])

\* ------------------------------------------------------- catalog elements
Titles == {"A", "B"}
\* A truthy JSON value that is not a string (a number, a list).
NonString == "<non-string>"

\* int(ds.get("discountPercentage", 0)): the values of the field.
PctAbsent == "absent"
PctZero == "0"
PctFifty == "50"
PctNull == "null"
PctText == "text"

IntRaises(p) == p \in {PctNull, PctText}
IntValue(p) == IF p = PctFifty THEN 50 ELSE 0

\* pick_best_image over the shapes of keyImages the model distinguishes:
\* "none" (missing or []), "str" (entries with a string url), "num" (an entry
\* whose url is a truthy non-string), "entryNotObject" (an entry that is no
\* JSON object, so img.get raises).
pick_best_image_raises(keyImages) == keyImages = "entryNotObject"
pick_best_image(keyImages) == IF keyImages = "none" THEN "none" ELSE keyImages

\* The outcome of one iteration of the loop over elements for element itm at
\* now_utc = now: [kind |-> "skip"], [kind |-> "raise"] or [kind |-> "emit", item].
Skip == [kind |-> "skip"]
Raise == [kind |-> "raise"]
Emit(it) == [kind |-> "emit", item |-> it]

is_free(itm) ==
    itm.discountType = "PERCENTAGE" /\ IntValue(itm.discountPercentage) = 0

\* The loop body with the end date compared by < instead of <=.
ParseElement_EndNotStrict(itm, now) ==
    IF itm.promo \in {"absent", "innerBad", "innerEmpty"} THEN Skip
    ELSE IF itm.promo = "offerBad" THEN Raise
    ELSE IF itm.discountType = "PERCENTAGE" /\ IntRaises(itm.discountPercentage)
        THEN Raise
    ELSE IF itm.endDate.kind = "absent" THEN Skip
    ELSE IF FromIsoRaises(itm.endDate) THEN Skip
    ELSE IF CompareRaises(itm.endDate) THEN Raise
    ELSE IF Instant(itm.endDate) < now THEN Skip
    ELSE IF ~is_free(itm) /\ itm.startDate.kind # "absent"
            /\ (\/ FromIsoRaises(itm.startDate)
                \/ CompareRaises(itm.startDate)
                \/ ~(Instant(itm.startDate) <= now /\ now <= Instant(itm.endDate)))
        THEN Skip
    ELSE IF itm.title = NonString THEN Raise
    ELSE IF pick_best_image_raises(itm.keyImages) THEN Raise
    ELSE Emit([title |-> itm.title,
               image |-> pick_best_image(itm.keyImages),
               ends_at_utc |-> IsoFormat(itm.endDate)])

\* One iteration of the loop over elements.
ParseElement(itm, now) ==
    IF itm.promo \in {"absent", "innerBad", "innerEmpty"} THEN Skip
    ELSE IF itm.promo = "offerBad" THEN Raise
    ELSE IF itm.discountType = "PERCENTAGE" /\ IntRaises(itm.discountPercentage)
        THEN Raise
    ELSE IF itm.endDate.kind = "absent" THEN Skip
    ELSE IF FromIsoRaises(itm.endDate) THEN Skip
    ELSE IF CompareRaises(itm.endDate) THEN Raise
    ELSE IF Instant(itm.endDate) <= now THEN Skip
    ELSE IF ~is_free(itm) /\ itm.startDate.kind # "absent"
            /\ (\/ FromIsoRaises(itm.startDate)
                \/ CompareRaises(itm.startDate)
                \/ ~(Instant(itm.startDate) <= now /\ now <= Instant(itm.endDate)))
        THEN Skip
    ELSE IF itm.title = NonString THEN Raise
    ELSE IF pick_best_image_raises(itm.keyImages) THEN Raise
    ELSE Emit([title |-> itm.title,
               image |-> pick_best_image(itm.keyImages),
               ends_at_utc |-> IsoFormat(itm.endDate)])

\* result.sort(key=lambda x: x["ends_at_utc"]): a stable sort on the string.
RECURSIVE InsertSorted(_, _)
InsertSorted(s, it) ==
    IF s = <<>> THEN <<it>>
    ELSE IF IsoStrLess(it.ends_at_utc, Head(s).ends_at_utc) THEN <<it>> \o s
    ELSE <<Head(s)>> \o InsertSorted(Tail(s), it)

RECURSIVE SortByEnds(_)
SortByEnds(s) ==
    IF s = <<>> THEN <<>>
    ELSE InsertSorted(SortByEnds(SubSeq(s, 1, Len(s) - 1)), s[Len(s)])

RECURSIVE ExtractAll(_, _)
ExtractAll(elements, now) ==
    IF elements = <<>> THEN <<>>
    ELSE LET r == ParseElement(Head(elements), now)
             rest == ExtractAll(Tail(elements), now)
         IN IF r.kind = "emit" THEN <<r.item>> \o rest ELSE rest

\* A payload is [object |-> BOOLEAN, elements |-> sequence of elements]; a
\* payload that is valid JSON but no object (or whose nested path is no
\* object) makes payload.get(...) raise.
NonObjectPayload == [object |-> FALSE, elements |-> <<>>]

parse_raises(payload, now) ==
    \/ ~payload.object
    \/ \E k \in 1..Len(payload.elements) :
          ParseElement(payload.elements[k], now).kind = "raise"

parse_free_now_items(payload, now) == SortByEnds(ExtractAll(payload.elements, now))

\* ------------------------------------------------------------------ state
VARIABLES
    clock,        \* the wall clock, in hours
    file,         \* the state file at STATE
    pc,           \* where the current invocation of main() stands
    minHours,     \* MIN_HOURS_BETWEEN_RUNS of the current process
    emailOK,      \* SMTP_HOST and SMTP_PORT and EMAIL_TO of the current process
    attempts,     \* http_get_json's attempts
    backoff,      \* http_get_json's backoff
    state,        \* main's state dict
    loaded,       \* what load_state returned (kept for reference)
    now_utc,      \* main's now_utc
    ep,           \* fetch_free_now: index of the endpoint being tried
    i,            \* http_get_json: loop index
    last,         \* http_get_json: last
    hres,         \* http_get_json: pending, returned document or raised error
    gets,         \* http_get_json: outcome of every GET of the current call
    sleeps,       \* http_get_json: duration of every time.sleep of the call
    last_exc,     \* fetch_free_now: last_exc
    tried,        \* fetch_free_now: outcome of every endpoint tried, in order
    contacted,    \* the endpoint of every GET of this invocation, in order
    fetchErr,     \* the RuntimeError fetch_free_now raised, if any
    items,        \* main's items
    new_items,    \* main's new_items
    notified,     \* main's notified
    rendered,     \* the items rendered into html_body
    sendResult,   \* "none", "true", "false" or "raise": how send_email ended
    saveResult,   \* "none", "ok" or "raise": how save_state ended
    exit_status,  \* the value main() returned, None while running
    uncaught,     \* an exception left main()
    log,          \* the steps main() has taken in this invocation
    prev,         \* summary of the previous invocation
    delivered,    \* the keys of the emails dispatched by runs that then saved
    tmp,          \* the file at STATE + ".tmp"
    inv,          \* the invocations of the store-level view, one per process
    smtp          \* send_email's conversation with the SMTP server

httpVars == <<i, last, hres, gets, sleeps>>
fetchVars == <<ep, last_exc, tried, contacted, fetchErr>>
cfgVars == <<minHours, emailOK, attempts, backoff>>
mainVars == <<state, loaded, now_utc, items, new_items, notified, rendered,
              sendResult, saveResult, exit_status, uncaught>>
sideVars == <<tmp, inv, smtp>>
vars == <<clock, file, pc, cfgVars, httpVars, fetchVars, mainVars, log, prev,
          delivered, sideVars>>

\* ------------------------------------------------------------ state store
\* main's state: a dict with the notified map and last_success_iso, or,
\* when the file held some other JSON value, that value (object = FALSE).
FreshState == [object |-> TRUE, notified |-> {}, last_success_iso |-> None]
NonDictState == [object |-> FALSE, notified |-> {}, last_success_iso |-> None]

\* The file at STATE: missing, or with content "document" (an object with a
\* notified map and last_success_iso, as save_state writes it), "unreadable"
\* (open raises), "corrupt" (not JSON), "array" (valid JSON, but no object).
MissingFile ==
    [exists |-> FALSE, content |-> "none", notified |-> {},
     last_success_iso |-> None]
Document(st) ==
    [exists |-> TRUE, content |-> "document", notified |-> st.notified,
     last_success_iso |-> st.last_success_iso]
DamagedFile(c) ==
    [exists |-> TRUE, content |-> c, notified |-> {}, last_success_iso |-> None]

\* A load that ignores the file.
load_state_AlwaysFresh(f) == FreshState

\* load_state: whatever json.load returns, or a fresh state when open() or
\* json.load raises.
load_state(f) ==
    IF f.exists /\ f.content = "document"
    THEN [object |-> TRUE, notified |-> f.notified,
          last_success_iso |-> f.last_success_iso]
    ELSE IF f.exists /\ f.content = "array" THEN NonDictState
    ELSE FreshState

\* state.get(...) raises AttributeError when state is no dict.
state_get_raises(st) == ~st.object

\* save_state: the file after the call; a failing open/dump/replace leaves
\* the file at path as it was.
save_state(f, st, ok) == IF ok THEN Document(st) ELSE f

\* ------------------------------------------------------------- orchestrator
\* key = f"{it['title']}|{it['ends_at_utc']}"
Key(it) == <<it.title, it.ends_at_utc>>

KeysOf(its) == {Key(its[k]) : k \in 1..Len(its)}

\* A state update that keeps the notified map as it was loaded.
UpdatedState_KeepLoaded(st, ntf, now) ==
    [object |-> TRUE, notified |-> st.notified, last_success_iso |-> now]

\* state after lines 449-450.
UpdatedState(st, ntf, now) ==
    [object |-> TRUE, notified |-> ntf, last_success_iso |-> now]

\* The guard with its threshold one hour short.
GuardSkips_Short(mh, st, now) ==
    /\ mh > 0
    /\ st.last_success_iso # None
    /\ now - st.last_success_iso < mh - 1

\* The spacing guard's condition.
GuardSkips(mh, st, now) ==
    /\ mh > 0
    /\ st.last_success_iso # None
    /\ now - st.last_success_iso < mh

\* A de-dupe loop that breaks after the first new item.
NewItems_FirstOnly(its, ntf) ==
    LET all == SelectSeq(its, LAMBDA it : Key(it) \notin ntf)
    IN IF all = <<>> THEN <<>> ELSE <<all[1]>>

\* A de-dupe loop that never consults the notified map.
NewItems_All(its, ntf) == its

\* The de-dupe loop: the items whose key is not notified, in order.
NewItems(its, ntf) == SelectSeq(its, LAMBDA it : Key(it) \notin ntf)

\* A marking loop that stops after the first item.
MarkNotified_FirstOnly(ntf, its) ==
    IF its = <<>> THEN ntf ELSE ntf \cup {Key(its[1])}

\* After a successful send: every currently visible item is marked.
MarkNotified(ntf, its) == ntf \cup KeysOf(its)

\* html.escape(g["image"] or "") raises on a truthy non-string image.
render_raises(its) == \E k \in 1..Len(its) : its[k].image = "num"

NoCall == [kind |-> "pending"]
NoError == [ep |-> 0, attempt |-> 0, kind |-> "none"]
NoPrev == [outcome |-> "none", items |-> <<>>, new_items |-> <<>>,
           sendResult |-> "none", saveResult |-> "none"]

\* ---------------------------------------------------------- the inputs
Elem(t, p, e, st, dt, pct, img) ==
    [title |-> t, promo |-> p, endDate |-> e, startDate |-> st,
     discountType |-> dt, discountPercentage |-> pct, keyImages |-> img]

\* Free at 0 %, ends at 9:00 UTC, with cover art.
GoodA == Elem("A", "ok", AwareDate(9, 0), AbsentDate, "PERCENTAGE", PctZero, "str")
\* In its promo window 0:00..2:00 UTC, no image.
GoodB == Elem("B", "ok", AwareDate(2, 0), AwareDate(0, 0), "OTHER", PctAbsent, "none")
\* As GoodA, but the image url is a number.
NumImageA == Elem("A", "ok", AwareDate(9, 0), AbsentDate, "PERCENTAGE", PctZero, "num")
\* discountPercentage is null.
NullPctB == Elem("B", "ok", AwareDate(9, 0), AbsentDate, "PERCENTAGE", PctNull, "str")
\* No promotions at all.
NoPromoB == Elem("B", "absent", AbsentDate, AbsentDate, "OTHER", PctAbsent, "none")

Catalog(elems) == [object |-> TRUE, elements |-> elems]

\* The documents an endpoint may answer with.
Payloads ==
    { NonObjectPayload,
      Catalog(<<>>),
      Catalog(<<GoodA>>),
      Catalog(<<GoodB>>),
      Catalog(<<GoodA, GoodB>>),
      Catalog(<<NoPromoB, GoodA>>),
      Catalog(<<NumImageA>>),
      Catalog(<<NullPctB, GoodA>>) }

\* The processes of the store-level view.
Procs == {1, 2}

\* An invocation that is not running.
IdleInv ==
    [pc |-> "idle", loaded |-> FreshState, state |-> FreshState,
     fd |-> "none", dumped |-> FALSE, clobbered |-> FALSE, overlap |-> FALSE]

\* No SMTP conversation.
NoSession == [pc |-> "off"]

\* Nothing sent yet, no temporary file, no other view in use.
SideInit ==
    /\ delivered = {}
    /\ tmp = MissingFile
    /\ inv = [p \in Procs |-> IdleInv]
    /\ smtp = NoSession

\* ------------------------------------------------------------------- Init
Init ==
    /\ clock = 0
    /\ file = MissingFile
    /\ pc = "idle"
    /\ attempts = DefaultAttempts
    /\ backoff = DefaultBackoff
    /\ prev = NoPrev
    /\ minHours = 0
    /\ emailOK = FALSE
    /\ state = FreshState
    /\ loaded = FreshState
    /\ now_utc = 0
    /\ ep = 0
    /\ i = 0
    /\ last = NoError
    /\ hres = NoCall
    /\ gets = <<>>
    /\ sleeps = <<>>
    /\ last_exc = NoError
    /\ tried = <<>>
    /\ contacted = <<>>
    /\ fetchErr = NoError
    /\ items = <<>>
    /\ new_items = <<>>
    /\ notified = {}
    /\ rendered = <<>>
    /\ sendResult = "none"
    /\ saveResult = "none"
    /\ exit_status = None
    /\ uncaught = FALSE
    /\ log = <<>>
    /\ SideInit

\* --------------------------------------------------------------- actions
\* Time passes between invocations and while the fetcher waits on the network.
Tick ==
    /\ pc = "idle" \/ (pc = "fetch" /\ hres.kind = "pending")
    /\ clock < MaxClock
    /\ clock' = clock + 1
    /\ UNCHANGED <<delivered, sideVars>>
    /\ UNCHANGED <<file, pc, cfgVars, httpVars, fetchVars, mainVars, log, prev>>

\* The scheduler starts the process: the module reads its configuration from
\* the environment, main() loads the state and samples now_utc.
LoadState ==
    /\ pc = "idle"
    /\ minHours' \in MinHoursValues
    /\ emailOK' \in BOOLEAN
    /\ state' = load_state(file)
    /\ loaded' = load_state(file)
    /\ now_utc' = clock
    /\ log' = <<"load">>
    /\ pc' = "guard"
    /\ UNCHANGED <<delivered, sideVars>>
    /\ UNCHANGED <<clock, file, attempts, backoff, httpVars, fetchVars, items,
                   new_items, notified, rendered, sendResult, saveResult,
                   exit_status, uncaught, prev>>

\* The spacing guard: return 0 at once, or go on to fetch_free_now, which
\* starts http_get_json on the first endpoint.  With the guard enabled the
\* condition calls state.get, outside any try.
IntervalGuard ==
    /\ pc = "guard"
    /\ log' = Append(log, "guard")
    /\ IF minHours > 0 /\ state_get_raises(state)
       THEN /\ uncaught' = TRUE
            /\ exit_status' = 1
            /\ pc' = "done"
            /\ UNCHANGED <<ep>>
       ELSE IF GuardSkips(minHours, state, now_utc)
       THEN /\ exit_status' = 0
            /\ pc' = "done"
            /\ UNCHANGED <<ep, uncaught>>
       ELSE /\ pc' = "fetch"
            /\ ep' = 1
            /\ UNCHANGED <<exit_status, uncaught>>
    /\ UNCHANGED <<delivered, sideVars>>
    /\ UNCHANGED <<clock, file, cfgVars, httpVars, last_exc, tried, contacted,
                   fetchErr, state, loaded, now_utc, items, new_items, notified, rendered,
                   sendResult, saveResult, prev>>

\* The exception object of the attempt-th GET at endpoint e.  The code
\* catches every Exception alike (status, transport, JSON decoding), so the
\* model tells errors apart by where they were raised only.
HttpError(e, attempt) == [ep |-> e, attempt |-> attempt, kind |-> "http"]
\* The exception parse_free_now_items raised on doc at endpoint e: on the
\* payload's own shape ("payload") or while processing an element ("element").
ParseError(e, doc) ==
    [ep |-> e, attempt |-> 0,
     kind |-> IF doc.object THEN "element" ELSE "payload"]

\* Whether iteration idx (0-based) of the retry loop sleeps after failing.
SleepsAfter(idx, n) == idx < n - 1
\* The duration of that sleep.
SleepTime(idx, b) == b * (idx + 1)
\* last keeps the first exception caught.
CatchError_KeepFirst(lastErr, e) == IF lastErr.kind = "none" THEN e ELSE lastErr

\* except Exception as e: last = e.  The new value of last.
CatchError(lastErr, e) == e

\* One iteration of http_get_json's loop: a GET that returns the document,
\* or fails, is remembered in last and followed by the backoff sleep; the
\* last failing iteration falls out of the loop into `raise last`.
HttpAttempt ==
    /\ pc = "fetch"
    /\ hres.kind = "pending"
    /\ i < attempts
    /\ \/ \E doc \in Payloads :
             /\ gets' = Append(gets, [ok |-> TRUE, ep |-> ep, doc |-> doc])
             /\ hres' = [kind |-> "ok", doc |-> doc]
             /\ contacted' = Append(contacted, ep)
             /\ UNCHANGED <<i, last, sleeps>>
       \/ /\ gets' = Append(gets, [ok |-> FALSE, ep |-> ep, doc |-> NonObjectPayload])
          /\ last' = CatchError(last, HttpError(ep, i + 1))
          /\ sleeps' = IF SleepsAfter(i, attempts)
                       THEN Append(sleeps, SleepTime(i, backoff))
                       ELSE sleeps
          /\ i' = i + 1
          /\ hres' = IF i + 1 < attempts
                     THEN NoCall
                     ELSE [kind |-> "raise", err |-> last']
          /\ contacted' = Append(contacted, ep)
    /\ UNCHANGED <<delivered, sideVars>>
    /\ UNCHANGED <<clock, file, pc, cfgVars, ep, last_exc, tried, fetchErr,
                   mainVars, log, prev>>

\* A loop that stops one endpoint short.
MoreEndpoints_Short(e) == e < NumEndpoints - 1

\* for url in EPIC_JSON_ENDPOINTS: whether an endpoint follows endpoint e.
MoreEndpoints(e) == e < NumEndpoints

\* fetch_free_now's try/except around one endpoint, once http_get_json has
\* returned or raised: parse and return the items, or remember the exception
\* and move to the next endpoint; after the last endpoint, raise RuntimeError.
FetchEndpoint ==
    /\ pc = "fetch"
    /\ hres.kind # "pending"
    /\ IF hres.kind = "ok" /\ ~parse_raises(hres.doc, clock)
       THEN /\ items' = parse_free_now_items(hres.doc, clock)
            /\ tried' = Append(tried, [ep |-> ep, ok |-> TRUE, err |-> NoError])
            /\ pc' = "dedupe"
            /\ log' = Append(log, "fetch")
            /\ UNCHANGED <<ep, httpVars, last_exc, fetchErr>>
       ELSE LET e == IF hres.kind = "raise" THEN hres.err
                     ELSE ParseError(ep, hres.doc)
            IN /\ last_exc' = e
               /\ tried' = Append(tried, [ep |-> ep, ok |-> FALSE, err |-> e])
               /\ IF MoreEndpoints(ep)
                  THEN /\ ep' = ep + 1
                       /\ i' = 0
                       /\ last' = NoError
                       /\ hres' = NoCall
                       /\ gets' = <<>>
                       /\ sleeps' = <<>>
                       /\ UNCHANGED <<pc, fetchErr, log>>
                  ELSE /\ fetchErr' = e
                       /\ pc' = "fetch_failed"
                       /\ log' = Append(log, "fetch")
                       /\ UNCHANGED <<ep, httpVars>>
               /\ UNCHANGED <<items>>
    /\ UNCHANGED <<delivered, sideVars>>
    /\ UNCHANGED <<clock, file, cfgVars, contacted, state, loaded, now_utc,
                   new_items, notified, rendered, sendResult, saveResult,
                   exit_status, uncaught, prev>>

\* A fetch failure that still records the run in the state file.
MainFetchFailed_Saves ==
    /\ pc = "fetch_failed"
    /\ exit_status' = 1
    /\ pc' = "done"
    /\ file' = Document(UpdatedState(state, state.notified, now_utc))
    /\ UNCHANGED <<delivered, sideVars>>
    /\ UNCHANGED <<clock, cfgVars, httpVars, fetchVars, state, loaded,
                   now_utc, items, new_items, notified, rendered, sendResult,
                   saveResult, uncaught, log, prev>>

\* main's except around fetch_free_now: log and return 1.
MainFetchFailed ==
    /\ pc = "fetch_failed"
    /\ exit_status' = 1
    /\ pc' = "done"
    /\ UNCHANGED <<delivered, sideVars>>
    /\ UNCHANGED <<clock, file, cfgVars, httpVars, fetchVars, state, loaded,
                   now_utc, items, new_items, notified, rendered, sendResult,
                   saveResult, uncaught, log, prev>>

\* Rendering and sending whether or not anything is new.
AfterDedupe_Always(newIts) == "render"

\* Where main goes after the de-dupe loop.
AfterDedupe(newIts) == IF newIts # <<>> THEN "render" ELSE "persist"

\* The de-dupe loop over items.  The fetcher has returned: its locals and
\* the record of its requests are dropped here.
Dedupe ==
    /\ pc = "dedupe"
    /\ IF state_get_raises(state)
       THEN /\ uncaught' = TRUE
            /\ exit_status' = 1
            /\ pc' = "done"
            /\ UNCHANGED <<notified, new_items>>
       ELSE /\ notified' = state.notified
            /\ new_items' = NewItems(items, state.notified)
            /\ pc' = AfterDedupe(new_items')
            /\ UNCHANGED <<uncaught, exit_status>>
    /\ log' = Append(log, "dedupe")
    /\ ep' = 0
    /\ i' = 0
    /\ last' = NoError
    /\ hres' = NoCall
    /\ gets' = <<>>
    /\ sleeps' = <<>>
    /\ last_exc' = NoError
    /\ tried' = <<>>
    /\ contacted' = <<>>
    /\ UNCHANGED <<delivered, sideVars>>
    /\ UNCHANGED <<clock, file, cfgVars, fetchErr, state, loaded,
                   now_utc, items, rendered, sendResult, saveResult, prev>>

\* render_email_html(new_items, ...), outside any try: an exception ends the
\* process with a traceback and exit status 1.
Render ==
    /\ pc = "render"
    /\ log' = Append(log, "render")
    /\ IF render_raises(new_items)
       THEN /\ uncaught' = TRUE
            /\ exit_status' = 1
            /\ pc' = "done"
            /\ UNCHANGED <<rendered>>
       ELSE /\ rendered' = new_items
            /\ pc' = "send"
            /\ UNCHANGED <<uncaught, exit_status>>
    /\ UNCHANGED <<delivered, sideVars>>
    /\ UNCHANGED <<clock, file, cfgVars, httpVars, fetchVars, state, loaded,
                   now_utc, items, new_items, notified, sendResult, saveResult,
                   prev>>

\* How send_email may end: False when the transport is not configured,
\* otherwise True or an exception of the SMTP conversation.
SendOutcomes(configured) == IF configured THEN {"true", "raise"} ELSE {"false"}

\* sent initialised to True, so that an exception leaves it True.
Sent_DefaultTrue(outcome) == outcome # "false"

\* sent after the try/except around send_email.
Sent(outcome) == outcome = "true"

\* send_email and main's handling of its result: mark on success only.
SendEmail ==
    /\ pc = "send"
    /\ \E outcome \in SendOutcomes(emailOK) :
          /\ sendResult' = outcome
          /\ notified' = IF Sent(outcome)
                         THEN MarkNotified(notified, items)
                         ELSE notified
    /\ pc' = "persist"
    /\ log' = Append(log, "send")
    /\ UNCHANGED <<delivered, sideVars>>
    /\ UNCHANGED <<clock, file, cfgVars, httpVars, fetchVars, state, loaded,
                   now_utc, items, new_items, rendered, saveResult,
                   exit_status, uncaught, prev>>

\* Update the state, try to save it (a failure is only logged), return 0.
Persist ==
    /\ pc = "persist"
    /\ state' = UpdatedState(state, notified, now_utc)
    /\ \E ok \in BOOLEAN :
          /\ file' = save_state(file, state', ok)
          /\ saveResult' = IF ok THEN "ok" ELSE "raise"
          /\ delivered' = IF ok /\ sendResult = "true"
                          THEN delivered \cup KeysOf(rendered)
                          ELSE delivered
    /\ exit_status' = 0
    /\ pc' = "done"
    /\ log' = Append(log, "save")
    /\ UNCHANGED sideVars
    /\ UNCHANGED <<clock, cfgVars, httpVars, fetchVars, loaded, now_utc, items,
                   new_items, notified, rendered, sendResult, uncaught, prev>>

\* What the next invocation's claims need to know of this one.
Summary ==
    [outcome |-> IF uncaught THEN "crash"
                 ELSE IF exit_status = 1 THEN "fetch_failed"
                 ELSE IF saveResult = "none" THEN "skipped"
                 ELSE "ran",
     items |-> items,
     new_items |-> new_items,
     sendResult |-> sendResult,
     saveResult |-> saveResult]

\* The per-invocation variables as a fresh process finds them.
RunReset ==
    /\ minHours' = 0
    /\ emailOK' = FALSE
    /\ state' = FreshState
    /\ loaded' = FreshState
    /\ now_utc' = 0
    /\ ep' = 0
    /\ i' = 0
    /\ last' = NoError
    /\ hres' = NoCall
    /\ gets' = <<>>
    /\ sleeps' = <<>>
    /\ last_exc' = NoError
    /\ tried' = <<>>
    /\ contacted' = <<>>
    /\ fetchErr' = NoError
    /\ items' = <<>>
    /\ new_items' = <<>>
    /\ notified' = {}
    /\ rendered' = <<>>
    /\ sendResult' = "none"
    /\ saveResult' = "none"
    /\ exit_status' = None
    /\ uncaught' = FALSE
    /\ log' = <<>>

\* The process exits; the scheduler may start the next one.
Exit ==
    /\ pc = "done"
    /\ prev' = Summary
    /\ pc' = "idle"
    /\ RunReset
    /\ UNCHANGED <<delivered, sideVars>>
    /\ UNCHANGED <<clock, file, attempts, backoff>>

Next ==
    \/ Tick
    \/ LoadState
    \/ IntervalGuard
    \/ HttpAttempt
    \/ FetchEndpoint
    \/ MainFetchFailed
    \/ Dedupe
    \/ Render
    \/ SendEmail
    \/ Persist
    \/ Exit

Spec == Init /\ [][Next]_vars

\* http_get_json and fetch_free_now on their own, for every attempts and
\* backoff within the bounds: the call main makes, started at any hour.
InitHttp ==
    /\ clock \in 0..MaxClock
    /\ file = MissingFile
    /\ pc = "fetch"
    /\ attempts \in 1..MaxAttempts
    /\ backoff \in 1..MaxBackoff
    /\ prev = NoPrev
    /\ minHours = 0
    /\ emailOK = FALSE
    /\ state = FreshState
    /\ loaded = FreshState
    /\ now_utc = clock
    /\ ep = 1
    /\ i = 0
    /\ last = NoError
    /\ hres = NoCall
    /\ gets = <<>>
    /\ sleeps = <<>>
    /\ last_exc = NoError
    /\ tried = <<>>
    /\ contacted = <<>>
    /\ fetchErr = NoError
    /\ items = <<>>
    /\ new_items = <<>>
    /\ notified = {}
    /\ rendered = <<>>
    /\ sendResult = "none"
    /\ saveResult = "none"
    /\ exit_status = None
    /\ uncaught = FALSE
    /\ log = <<"load", "guard">>
    /\ SideInit

NextHttp ==
    \/ HttpAttempt
    \/ FetchEndpoint

SpecHttp == InitHttp /\ [][NextHttp]_vars

\* ------------------------------------------------------------- the claims
Steps(sq) == {sq[k] : k \in 1..Len(sq)}
Did(step) == step \in Steps(log)

\* The state file is as load_state found it.
FileAsLoaded == load_state(file) = loaded

\* The previous invocation fetched, sent its email and saved its state.
PrevDelivered ==
    /\ prev.outcome = "ran"
    /\ prev.sendResult = "true"
    /\ prev.saveResult = "ok"

\* C1: when the previous run sent its email and saved its state, a run that
\* fetches the same item list finds no new item and does not call send_email.
C1_SecondRunSendsNothing ==
    (PrevDelivered /\ Did("dedupe") /\ items = prev.items)
        => /\ new_items = <<>>
           /\ sendResult = "none"
           /\ ~Did("render")
           /\ ~Did("send")

C1_Witness ==
    /\ PrevDelivered
    /\ Len(prev.items) = 2
    /\ items = prev.items
    /\ pc = "done"
    /\ Did("save")

\* The previous invocation attempted a send that raised or returned False.
PrevSendFailed == prev.outcome = "ran" /\ prev.sendResult \in {"false", "raise"}

\* C2: a run whose send raised or returned False marks no key as notified
\* (in memory and on disk), and the next run, fetching the same items, has the
\* same keys in its new subset and calls send_email again.
C2_FailedSendIsRetried ==
    /\ (sendResult \in {"false", "raise"})
          => /\ new_items # <<>>
             /\ notified = loaded.notified
             /\ state.notified = loaded.notified
             /\ file.notified = loaded.notified
    /\ (PrevSendFailed /\ Did("dedupe") /\ items = prev.items)
          => /\ KeysOf(new_items) = KeysOf(prev.new_items)
             /\ new_items # <<>>
             /\ ~uncaught
             /\ pc \in {"persist", "done"} => sendResult # "none"

C2_Witness ==
    /\ PrevSendFailed
    /\ prev.sendResult = "raise"
    /\ items = prev.items
    /\ pc = "done"
    /\ sendResult = "true"

\* The keys this run has added to the notified map: absent when the state
\* was loaded, present now in main's map, in its state or on disk.
AddedKeys ==
    IF pc = "idle" THEN {}
    ELSE (notified \cup state.notified \cup file.notified) \ loaded.notified

\* C3: every key a run adds to the notified map is the key of an item of
\* new_items, rendered into the email for which send_email returned True in
\* this run; none is added after rendering alone or after a failed send.
C3_AddedOnlyAfterDispatch ==
    \A k \in AddedKeys :
        /\ sendResult = "true"
        /\ rendered = new_items
        /\ k \in KeysOf(rendered)

C3_Witness ==
    /\ pc = "done"
    /\ saveResult = "ok"
    /\ loaded.notified # {}
    /\ AddedKeys # {}
    /\ Len(items) > Len(new_items)

\* The guard's precondition, on what the run loaded.
GuardApplies ==
    /\ pc # "idle"
    /\ minHours > 0
    /\ loaded.last_success_iso # None
    /\ now_utc - loaded.last_success_iso < minHours

\* C4: with MIN_HOURS_BETWEEN_RUNS > 0, a last_success_iso and less than the
\* threshold elapsed, main returns 0 with no HTTP request, no send and no
\* write of the state file.
C4_GuardSkipsRun ==
    (GuardApplies /\ Did("guard"))
        => /\ pc = "done"
           /\ exit_status = 0
           /\ ~uncaught
           /\ contacted = <<>>
           /\ gets = <<>>
           /\ sendResult = "none"
           /\ saveResult = "none"
           /\ log = <<"load", "guard">>
           /\ FileAsLoaded
           /\ file.exists

C4_Witness ==
    /\ GuardApplies
    /\ pc = "done"
    /\ now_utc > loaded.last_success_iso
    /\ loaded.notified # {}

\* fetch_free_now has raised in this run.
FetchRaised == pc = "fetch_failed" \/ (pc = "done" /\ fetchErr # NoError)

\* C5: when every endpoint fails, main returns 1 and the state file is left
\* as it was: no save_state, no send_email, last_success_iso and notified
\* keep their values for the next invocation's guard.
C5_FetchFailureLeavesState ==
    FetchRaised
        => /\ pc = "done" => exit_status = 1
           /\ exit_status # 0
           /\ saveResult = "none"
           /\ sendResult = "none"
           /\ ~Did("send")
           /\ ~Did("save")
           /\ FileAsLoaded
           /\ state = loaded

C5_Witness ==
    /\ FetchRaised
    /\ pc = "done"
    /\ exit_status = 1
    /\ file.exists
    /\ file.notified # {}

\* C6 (as claimed): every run whose fetch succeeded returns 0 and has tried
\* to save the state with last_success_iso set to the run's timestamp.
C6_FetchedRunReturnsZeroAndSaves ==
    (pc = "done" /\ Did("dedupe"))
        => /\ exit_status = 0
           /\ ~uncaught
           /\ saveResult # "none"
           /\ state.last_success_iso = now_utc

\* The order of main's steps.
StepRank(step) ==
    CASE step = "load" -> 1
      [] step = "guard" -> 2
      [] step = "fetch" -> 3
      [] step = "dedupe" -> 4
      [] step = "render" -> 5
      [] step = "send" -> 6
      [] step = "save" -> 7

\* C7: within a run the steps happen in the order load, guard, fetch,
\* de-dupe, render-and-send, persist, none twice; send_email is called at most
\* once, only after a successful fetch with a non-empty new subset; save_state
\* at most once, only after a successful fetch and after the send, if any.
C7_StepsInOrderOnce ==
    /\ \A a, b \in 1..Len(log) : a < b => StepRank(log[a]) < StepRank(log[b])
    /\ \A a \in 1..Len(log) :
          StepRank(log[a]) \in 2..4 => a > 1 /\ StepRank(log[a - 1]) = StepRank(log[a]) - 1
    /\ contacted # <<>> => Did("guard")
    /\ Did("dedupe") => fetchErr = NoError /\ (pc = "dedupe" \/ contacted = <<>>)
    /\ Did("render") => Did("dedupe") /\ new_items # <<>>
    /\ Did("send") => Did("render") /\ sendResult # "none"
    /\ sendResult # "none" => Did("send")
    /\ (Did("dedupe") /\ new_items = <<>>) => ~Did("render") /\ ~Did("send")
    /\ Did("save") => /\ Did("dedupe")
                      /\ saveResult # "none"
                      /\ new_items # <<>> => Did("send")
    /\ saveResult # "none" => Did("save")

C7_Witness ==
    /\ pc = "done"
    /\ log = <<"load", "guard", "fetch", "dedupe", "render", "send", "save">>
    /\ sendResult = "raise"

\* The number of GETs sent to endpoint e in this invocation.
GetsTo(e) == Cardinality({k \in 1..Len(contacted) : contacted[k] = e})

\* C8: endpoints are contacted one at a time in list order, endpoint k+1 only
\* after endpoint k failed (all its attempts failed, or parsing its payload
\* raised); the first endpoint that succeeds gives the result and no later one
\* is contacted; the aggregate error, carrying the last endpoint's failure, is
\* raised only when every endpoint failed.
C8_EndpointFallback ==
    /\ \A k \in 1..Len(contacted) :
          /\ contacted[k] \in 1..NumEndpoints
          /\ k = 1 => contacted[k] = 1
          /\ k > 1 => contacted[k] \in {contacted[k - 1], contacted[k - 1] + 1}
          /\ \A j \in 1..(contacted[k] - 1) :
                j <= Len(tried) /\ tried[j].ep = j /\ ~tried[j].ok
    /\ \A j \in 1..Len(tried) :
          /\ tried[j].ep = j
          /\ tried[j].ok => j = Len(tried) /\ pc = "dedupe"
          /\ ~tried[j].ok =>
                \/ tried[j].err = HttpError(j, attempts) /\ GetsTo(j) = attempts
                \/ tried[j].err.kind \in {"element", "payload"} /\ GetsTo(j) >= 1
    /\ pc = "dedupe" =>
          /\ tried # <<>>
          /\ tried[Len(tried)].ok
          /\ Len(tried) = ep
          /\ \A k \in 1..Len(contacted) : contacted[k] <= ep
          /\ fetchErr = NoError
          /\ hres.kind = "ok"
          /\ ~parse_raises(hres.doc, clock)
          /\ items = parse_free_now_items(hres.doc, clock)
    /\ FetchRaised =>
          /\ Len(tried) = NumEndpoints
          /\ \A j \in 1..Len(tried) : ~tried[j].ok
          /\ fetchErr = tried[NumEndpoints].err
    /\ fetchErr # NoError => FetchRaised

\* The first endpoint answered 500 on every attempt, the second answered with
\* a catalog that was parsed into two items.
C8_Witness ==
    /\ pc = "dedupe"
    /\ Len(tried) = 2
    /\ tried[1].err = HttpError(1, attempts)
    /\ tried[2].ok
    /\ Len(items) = 2

\* The failed GETs of the current http_get_json call.
FailedGets == Cardinality({k \in 1..Len(gets) : ~gets[k].ok})

Min(a, b) == IF a < b THEN a ELSE b

\* C9: http_get_json(url, attempts=n, backoff=b) issues at most n GETs,
\* returns the document of the first GET that succeeds and issues none after
\* it; after the i-th failure, i < n, it sleeps b*i; it does not sleep after
\* the n-th failure, and then raises the error of the last attempt.
C9_RetryLoop ==
    /\ Len(gets) <= attempts
    /\ \A k \in 1..Len(gets) : gets[k].ok => k = Len(gets)
    /\ hres.kind = "ok" <=> (gets # <<>> /\ gets[Len(gets)].ok)
    /\ hres.kind = "ok" => hres.doc = gets[Len(gets)].doc
    /\ hres.kind = "raise" <=> (ep > 0 /\ FailedGets = attempts)
    /\ hres.kind = "raise" => hres.err = HttpError(ep, attempts)
    /\ Len(sleeps) = Min(FailedGets, attempts - 1)
    /\ \A k \in 1..Len(sleeps) : sleeps[k] = backoff * k

C9_Witness ==
    /\ hres.kind = "raise"
    /\ attempts = 3
    /\ backoff = 2
    /\ sleeps = <<2, 4>>

\* C10 (as claimed): an exception raised while processing one element never
\* fails the endpoint, so it escalates neither to endpoint fallback nor to a
\* run failure.
C10_ElementErrorsNeverEscalate ==
    /\ \A j \in 1..Len(tried) : tried[j].err.kind # "element"
    /\ fetchErr.kind # "element"

\* ------------------------------------------- the extractor on its own
\* parse_free_now_items as a function of the payload and of the hour at which
\* it samples now_utc.  Payloads are either one element of any shape, or up
\* to MaxElems well-formed offers whose end dates differ in wall-clock reading
\* and in UTC offset.
MaxElems == 2

\* UTC offsets of the date strings, in hours.
Offsets == {-1, 0, 1}

EndDates ==
    {AbsentDate, MalformedDate, NaiveDate(1)}
        \cup {AwareDate(w, o) : w \in 1..MaxClock, o \in Offsets}

StartDates ==
    {AbsentDate, MalformedDate, NaiveDate(1),
     AwareDate(0, 0), AwareDate(2, 0), AwareDate(3, 1)}

ElementShapes ==
    {Elem(t, p, e, st, dt, pct, img) :
        t \in {"A", NonString},
        p \in {"absent", "innerBad", "innerEmpty", "offerBad", "ok"},
        e \in EndDates,
        st \in StartDates,
        dt \in {"PERCENTAGE", "OTHER"},
        pct \in {PctAbsent, PctZero, PctFifty, PctNull, PctText},
        img \in {"none", "str", "num", "entryNotObject"}}

FreeOffers ==
    {Elem(t, "ok", AwareDate(w, o), AbsentDate, "PERCENTAGE", PctZero, "none") :
        t \in {"A"}, w \in 1..MaxClock, o \in Offsets}
        \cup {NoPromoB}

SeqsUpTo(S, n) == UNION {[1..k -> S] : k \in 0..n}

ParsePayloads ==
    {NonObjectPayload}
        \cup {Catalog(<<e>>) : e \in ElementShapes}
        \cup {Catalog(s) : s \in SeqsUpTo(FreeOffers, MaxElems)}

InitParse ==
    /\ clock \in 0..MaxClock
    /\ file = MissingFile
    /\ pc = "parse"
    /\ attempts = DefaultAttempts
    /\ backoff = DefaultBackoff
    /\ prev = NoPrev
    /\ minHours = 0
    /\ emailOK = FALSE
    /\ state = FreshState
    /\ loaded = FreshState
    /\ now_utc = 0
    /\ ep = 1
    /\ i = 0
    /\ last = NoError
    /\ \E doc \in ParsePayloads : hres = [kind |-> "ok", doc |-> doc]
    /\ gets = <<>>
    /\ sleeps = <<>>
    /\ last_exc = NoError
    /\ tried = <<>>
    /\ contacted = <<>>
    /\ fetchErr = NoError
    /\ items = <<>>
    /\ new_items = <<>>
    /\ notified = {}
    /\ rendered = <<>>
    /\ sendResult = "none"
    /\ saveResult = "none"
    /\ exit_status = None
    /\ uncaught = FALSE
    /\ log = <<>>
    /\ SideInit

\* items = parse_free_now_items(payload), with now_utc sampled at its start:
\* it returns the list or raises.
ParseCall ==
    /\ pc = "parse"
    /\ now_utc' = clock
    /\ IF parse_raises(hres.doc, clock)
       THEN /\ pc' = "parse_raised"
            /\ UNCHANGED <<items>>
       ELSE /\ pc' = "parsed"
            /\ items' = parse_free_now_items(hres.doc, clock)
    /\ UNCHANGED <<delivered, sideVars>>
    /\ UNCHANGED <<clock, file, cfgVars, httpVars, fetchVars, state, loaded,
                   new_items, notified, rendered, sendResult, saveResult,
                   exit_status, uncaught, log, prev>>

NextParse == ParseCall

SpecParse == InitParse /\ [][NextParse]_vars

\* The element has a non-empty promotional-offer list with a non-empty inner
\* list whose first offer has an end date strictly later than now.
Qualifies(e, now) ==
    /\ e.promo = "ok"
    /\ e.endDate.kind = "aware"
    /\ Instant(e.endDate) > now

\* The item built from element e.
ItemOf(e) ==
    [title |-> e.title,
     image |-> pick_best_image(e.keyImages),
     ends_at_utc |-> IsoFormat(e.endDate)]

CountIn(s, v) == Cardinality({k \in DOMAIN s : s[k] = v})

\* C11: every item parse_free_now_items returns comes from an element of the
\* payload whose first promotional offer has an end date strictly later than
\* the now sampled at the start of the extraction; an element without such an
\* offer, or whose end date is at or before now, contributes no item.
C11_OnlyCurrentOffers ==
    pc = "parsed" =>
        LET els == hres.doc.elements
        IN \A k \in DOMAIN items :
              CountIn(items, items[k])
                 <= Cardinality({j \in DOMAIN els :
                                   /\ Qualifies(els[j], now_utc)
                                   /\ ItemOf(els[j]) = items[k]})

C11_Witness ==
    /\ pc = "parsed"
    /\ Len(items) = 1
    /\ Len(hres.doc.elements) = 2
    /\ \E j \in 1..2 :
          /\ hres.doc.elements[j].endDate.kind = "aware"
          /\ Instant(hres.doc.elements[j].endDate) = now_utc

\* The instant an isoformat() string denotes.
IsoInstant(iso) == iso[1] - iso[2]

\* C12 (as claimed): the returned list is in non-decreasing chronological
\* order of the items' end instants, whatever UTC offsets the end dates of the
\* payload are written with.
C12_ChronologicalOrder ==
    pc = "parsed" =>
        \A a, b \in DOMAIN items :
            a < b => IsoInstant(items[a].ends_at_utc) <= IsoInstant(items[b].ends_at_utc)

\* ------------------------------------------ one run over any state file
\* One invocation of main() started at any hour over a state file that is
\* missing, unreadable, not JSON, JSON of another shape, or a document an
\* earlier run wrote.
StateFiles ==
    { MissingFile,
      DamagedFile("unreadable"),
      DamagedFile("corrupt"),
      DamagedFile("array"),
      Document(UpdatedState(FreshState, {}, 0)),
      Document(UpdatedState(FreshState, {Key(ItemOf(GoodA))}, 0)) }

InitLoad ==
    /\ clock \in 0..MaxClock
    /\ file \in StateFiles
    /\ pc = "idle"
    /\ attempts = DefaultAttempts
    /\ backoff = DefaultBackoff
    /\ prev = NoPrev
    /\ minHours = 0
    /\ emailOK = FALSE
    /\ state = FreshState
    /\ loaded = FreshState
    /\ now_utc = 0
    /\ ep = 0
    /\ i = 0
    /\ last = NoError
    /\ hres = NoCall
    /\ gets = <<>>
    /\ sleeps = <<>>
    /\ last_exc = NoError
    /\ tried = <<>>
    /\ contacted = <<>>
    /\ fetchErr = NoError
    /\ items = <<>>
    /\ new_items = <<>>
    /\ notified = {}
    /\ rendered = <<>>
    /\ sendResult = "none"
    /\ saveResult = "none"
    /\ exit_status = None
    /\ uncaught = FALSE
    /\ log = <<>>
    /\ SideInit

NextLoad ==
    \/ LoadState
    \/ IntervalGuard
    \/ HttpAttempt
    \/ FetchEndpoint
    \/ MainFetchFailed
    \/ Dedupe
    \/ Render
    \/ SendEmail
    \/ Persist

SpecLoad == InitLoad /\ [][NextLoad]_vars

\* The file holds no well-formed state document.
NotWellFormed(f) == ~f.exists \/ f.content # "document"

\* C13 (as claimed): a state file that is missing, unreadable or not a
\* well-formed state document never fails the run: the run goes on with a
\* fresh empty state, the spacing guard does not fire, and every fetched item
\* is new.
C13_LoadNeverFailsRun ==
    (pc # "idle" /\ NotWellFormed(file)) =>
        /\ loaded = FreshState
        /\ uncaught => Did("render")
        /\ Did("guard") => (pc = "fetch" \/ Did("fetch"))
        /\ Did("dedupe") => new_items = items

\* ------------------------------------------- the state store, step by step
\* save_state as the sequence of system calls it makes, for invocations p of
\* Procs that may be interrupted, or run side by side, between any two of
\* them.  What an invocation does between load_state and save_state touches
\* no file and is taken as one step (PRun).  An open file descriptor follows
\* its file: fd is "tmp" or "path" while the file it writes is linked at
\* STATE + ".tmp" or at STATE, "unlinked" once another file has replaced it.
EmptyFile == DamagedFile("empty")
PartialFile == DamagedFile("partial")
GarbledFile == DamagedFile("garbled")

\* Writing the document in place.
WriteTarget_InPlace == "path"

\* tmp = path + ".tmp": the name save_state opens for writing.
WriteTarget == "tmp"

\* The main() variables at rest, while the store-level view is in use.
MainIdle ==
    /\ pc = "idle"
    /\ attempts = DefaultAttempts
    /\ backoff = DefaultBackoff
    /\ prev = NoPrev
    /\ minHours = 0
    /\ emailOK = FALSE
    /\ state = FreshState
    /\ loaded = FreshState
    /\ now_utc = 0
    /\ ep = 0
    /\ i = 0
    /\ last = NoError
    /\ hres = NoCall
    /\ gets = <<>>
    /\ sleeps = <<>>
    /\ last_exc = NoError
    /\ tried = <<>>
    /\ contacted = <<>>
    /\ fetchErr = NoError
    /\ items = <<>>
    /\ new_items = <<>>
    /\ notified = {}
    /\ rendered = <<>>
    /\ sendResult = "none"
    /\ saveResult = "none"
    /\ exit_status = None
    /\ uncaught = FALSE
    /\ log = <<>>
    /\ delivered = {}

mainAll == <<pc, cfgVars, httpVars, fetchVars, mainVars, log, prev, delivered>>

\* The file an open descriptor at loc writes to.
At(loc) == IF loc = "tmp" THEN tmp ELSE file

\* The file linked at loc gets content c; a write through a descriptor whose
\* file is linked nowhere changes no path.
WriteAt(loc, c) ==
    /\ tmp' = IF loc = "tmp" THEN c ELSE tmp
    /\ file' = IF loc = "path" THEN c ELSE file

\* What fetch_free_now may return at hour now: a failure, or the items of a
\* payload that parses.
FetchResults(now) ==
    {[ok |-> FALSE, items |-> <<>>]}
        \cup {[ok |-> TRUE, items |-> parse_free_now_items(doc, now)] :
                doc \in {d \in Payloads : ~parse_raises(d, now)}}

\* main, line 396: load_state.  The invocation overlaps the ones running.
PLoad(p) ==
    /\ inv[p].pc = "idle"
    /\ LET busy == {q \in Procs \ {p} : inv[q].pc # "idle"}
       IN inv' = [q \in Procs |->
                    IF q = p
                    THEN [IdleInv EXCEPT !.pc = "loaded",
                                         !.loaded = load_state(file),
                                         !.state = load_state(file),
                                         !.overlap = (busy # {})]
                    ELSE IF q \in busy THEN [inv[q] EXCEPT !.overlap = TRUE]
                    ELSE inv[q]]
    /\ UNCHANGED <<clock, file, tmp, smtp, mainAll>>

\* main, lines 397-450, for an invocation that has loaded its state: the
\* guard, the fetch, the de-dupe, the render and the send.  The invocation
\* ends without saving (guard, fetch failure, uncaught exception) or goes on
\* to save_state with the updated state.
PRun(p) ==
    /\ inv[p].pc = "loaded"
    /\ \E mh \in MinHoursValues, configured \in BOOLEAN,
          fetched \in FetchResults(clock) :
          LET st == inv[p].state
              newIts == NewItems(fetched.items, st.notified)
          IN IF \/ state_get_raises(st)
                \/ GuardSkips(mh, st, clock)
                \/ ~fetched.ok
                \/ render_raises(newIts)
             THEN inv' = [inv EXCEPT ![p] = IdleInv]
             ELSE \E outcome \in IF newIts = <<>> THEN {"none"}
                                 ELSE SendOutcomes(configured) :
                     inv' = [inv EXCEPT
                        ![p].pc = "save_open",
                        ![p].state =
                            UpdatedState(st,
                                IF Sent(outcome)
                                THEN MarkNotified(st.notified, fetched.items)
                                ELSE st.notified,
                                clock)]
    /\ UNCHANGED <<clock, file, tmp, smtp, mainAll>>

\* open(tmp, "w"): creates the file, or truncates the one linked there, which
\* another invocation may have open.
SaveOpen(p) ==
    /\ inv[p].pc = "save_open"
    /\ WriteAt(WriteTarget, EmptyFile)
    /\ inv' = [q \in Procs |->
                 IF q = p
                 THEN [inv[p] EXCEPT !.pc = "save_dump", !.fd = WriteTarget]
                 ELSE IF inv[q].fd = WriteTarget
                 THEN [inv[q] EXCEPT !.clobbered = TRUE]
                 ELSE inv[q]]
    /\ UNCHANGED <<clock, smtp, mainAll>>

\* The others that have the file of p's descriptor open see it change.
Clobber(p) ==
    [q \in Procs |->
        IF q # p /\ inv[q].fd = inv[p].fd /\ inv[p].fd \in {"tmp", "path"}
        THEN [inv[q] EXCEPT !.clobbered = TRUE]
        ELSE inv[q]]

\* json.dump: a first part of the document reaches the file before the rest
\* (a flush of the write buffer).
SaveDump(p) ==
    /\ inv[p].pc = "save_dump"
    /\ ~inv[p].dumped
    /\ WriteAt(inv[p].fd,
               IF At(inv[p].fd).content = "empty" THEN PartialFile
               ELSE GarbledFile)
    /\ inv' = [Clobber(p) EXCEPT ![p].dumped = TRUE]
    /\ UNCHANGED <<clock, smtp, mainAll>>

\* What the file holds once p has written all of doc: doc, unless another
\* invocation truncated the file under p's offset or wrote to it as well.
Written(p, doc) ==
    LET cur == At(inv[p].fd).content
    IN IF inv[p].dumped
       THEN IF cur = "partial" /\ ~inv[p].clobbered THEN {doc} ELSE {GarbledFile}
       ELSE IF cur = "empty" THEN {doc} ELSE {doc, GarbledFile}

\* The end of the with block: the rest of the document is written and the
\* file closed.
SaveClose(p) ==
    /\ inv[p].pc = "save_dump"
    /\ \E c \in Written(p, Document(inv[p].state)) : WriteAt(inv[p].fd, c)
    /\ inv' = [Clobber(p) EXCEPT ![p].pc = "save_replace", ![p].fd = "none"]
    /\ UNCHANGED <<clock, smtp, mainAll>>

\* os.replace(tmp, path): the file linked at tmp is linked at path instead, in
\* one step; it raises when no file is linked at tmp.  main logs a failure and
\* returns 0 either way.
SaveReplace(p) ==
    /\ inv[p].pc = "save_replace"
    /\ IF WriteTarget = "tmp" /\ tmp.exists
       THEN /\ file' = tmp
            /\ tmp' = MissingFile
            /\ inv' = [q \in Procs |->
                         IF q = p THEN IdleInv
                         ELSE IF inv[q].fd = "path"
                         THEN [inv[q] EXCEPT !.fd = "unlinked"]
                         ELSE IF inv[q].fd = "tmp"
                         THEN [inv[q] EXCEPT !.fd = "path"]
                         ELSE inv[q]]
       ELSE /\ inv' = [inv EXCEPT ![p] = IdleInv]
            /\ UNCHANGED <<file, tmp>>
    /\ UNCHANGED <<clock, smtp, mainAll>>

\* The process is interrupted (killed, power lost to it) between two steps,
\* or open/json.dump raises and main logs the failed save: the invocation is
\* over, its descriptor closed, the files stay as they are.
Interrupt(p) ==
    /\ inv[p].pc # "idle"
    /\ inv' = [inv EXCEPT ![p] = IdleInv]
    /\ UNCHANGED <<clock, file, tmp, smtp, mainAll>>

\* One process at a time, over a state file that is missing or was written by
\* an earlier run, with or without the remains of an interrupted save.
InitSave ==
    /\ clock = 0
    /\ file \in {MissingFile,
                 Document(UpdatedState(FreshState, {Key(ItemOf(GoodB))}, 0))}
    /\ tmp \in {MissingFile, PartialFile}
    /\ inv = [p \in Procs |-> IdleInv]
    /\ smtp = NoSession
    /\ MainIdle

NextSave ==
    \/ PLoad(1)
    \/ PRun(1)
    \/ SaveOpen(1)
    \/ SaveDump(1)
    \/ SaveClose(1)
    \/ SaveReplace(1)
    \/ Interrupt(1)

SpecSave == InitSave /\ [][NextSave]_vars

\* C14: whichever step a run is interrupted at, the file at STATE holds the
\* complete previous document or the complete new one, never a partial or an
\* empty one, and the next load_state reads one of those two states.
C14_SaveIsAtomic ==
    [][/\ file'.content \in {"none", "document"}
       /\ \/ file' = file
          \/ file' = Document(inv[1].state)
       /\ load_state(file') \in {load_state(file), inv[1].state}]_vars

C14_Witness ==
    /\ inv[1].pc = "save_replace"
    /\ tmp = Document(inv[1].state)
    /\ file.exists
    /\ file.notified # tmp.notified

\* The offer is flagged free-now: discount type PERCENTAGE and a discount
\* percentage of 0 (the field's default when absent).
FlaggedFree(e) ==
    /\ e.discountType = "PERCENTAGE"
    /\ e.discountPercentage \in {PctZero, PctAbsent}

\* now lies in the offer's window [start, end].
InWindow(e, now) ==
    /\ e.startDate.kind = "aware"
    /\ Instant(e.startDate) <= now
    /\ now <= Instant(e.endDate)

\* C15 (as claimed): an element whose first offer has a future end date is
\* emitted when the offer is flagged free-now, whatever its start date; when
\* it is not flagged and has a start date, exactly when start <= now <= end;
\* when it is not flagged and has no start date, always.
C15_WindowRule ==
    (/\ pc \in {"parsed", "parse_raised"}
     /\ hres.doc.object
     /\ Len(hres.doc.elements) = 1
     /\ Qualifies(hres.doc.elements[1], now_utc))
        => LET e == hres.doc.elements[1]
           IN (pc = "parsed" /\ items = <<ItemOf(e)>>)
                 <=> \/ FlaggedFree(e)
                     \/ e.startDate.kind = "absent"
                     \/ InWindow(e, now_utc)

\* ------------------------------------------------- send_email on its own
\* The SMTP conversation of one call of send_email, for every configuration:
\* smtp.host, port, rcpt, user and pass tell whether SMTP_HOST, SMTP_PORT,
\* EMAIL_TO, SMTP_USER and SMTP_PASS are set (non-empty, non-zero); smtp.log
\* is the sequence of the commands issued and whether each succeeded.
Session(h, po, r, u, pw) ==
    [pc |-> "start", host |-> h, port |-> po, rcpt |-> r, user |-> u,
     pass |-> pw, log |-> <<>>, result |-> "none"]

InitSend ==
    /\ clock = 0
    /\ file = MissingFile
    /\ tmp = MissingFile
    /\ inv = [p \in Procs |-> IdleInv]
    /\ \E h, po, r, u, pw \in BOOLEAN : smtp = Session(h, po, r, u, pw)
    /\ MainIdle

Cmd(op, ok) == [op |-> op, ok |-> ok]

\* An exception leaves send_email.
Raised(s) == [s EXCEPT !.pc = "raised", !.result = "raise"]

\* if not (SMTP_HOST and SMTP_PORT and EMAIL_TO)
Configured(s) == s.host /\ s.port /\ s.rcpt

\* Logging in as soon as one of the two is set.
NeedsLogin_Either(s) == s.user \/ s.pass

\* if SMTP_USER and SMTP_PASS
NeedsLogin(s) == s.user /\ s.pass

\* The configuration test: return False, or build the message and go on.
SmtpCheckConfig ==
    /\ smtp.pc = "start"
    /\ smtp' = IF Configured(smtp)
               THEN [smtp EXCEPT !.pc = "connect"]
               ELSE [smtp EXCEPT !.pc = "returned", !.result = "false"]
    /\ UNCHANGED <<clock, file, tmp, inv, mainAll>>

\* smtplib.SMTP(SMTP_HOST, SMTP_PORT): the connection is made, or it raises.
SmtpConnect ==
    /\ smtp.pc = "connect"
    /\ \E ok \in BOOLEAN :
          LET s == [smtp EXCEPT !.log = Append(@, Cmd("connect", ok))]
          IN smtp' = IF ok THEN [s EXCEPT !.pc = "ehlo"] ELSE Raised(s)
    /\ UNCHANGED <<clock, file, tmp, inv, mainAll>>

\* s.ehlo()
SmtpEhlo ==
    /\ smtp.pc = "ehlo"
    /\ \E ok \in BOOLEAN :
          LET s == [smtp EXCEPT !.log = Append(@, Cmd("ehlo", ok))]
          IN smtp' = IF ok THEN [s EXCEPT !.pc = "starttls"] ELSE Raised(s)
    /\ UNCHANGED <<clock, file, tmp, inv, mainAll>>

\* try: s.starttls(); s.ehlo()  except Exception: pass.  The upgrade raises,
\* or succeeds and is followed by a second EHLO that may raise; the function
\* goes on in each case.
SmtpStartTls ==
    /\ smtp.pc = "starttls"
    /\ \/ smtp' = [smtp EXCEPT !.log = Append(@, Cmd("starttls", FALSE)),
                                !.pc = "login"]
       \/ \E ok \in BOOLEAN :
             smtp' = [smtp EXCEPT
                        !.log = @ \o <<Cmd("starttls", TRUE), Cmd("ehlo_tls", ok)>>,
                        !.pc = "login"]
    /\ UNCHANGED <<clock, file, tmp, inv, mainAll>>

\* if SMTP_USER and SMTP_PASS: s.login(SMTP_USER, SMTP_PASS)
SmtpLogin ==
    /\ smtp.pc = "login"
    /\ IF NeedsLogin(smtp)
       THEN \E ok \in BOOLEAN :
               LET s == [smtp EXCEPT !.log = Append(@, Cmd("login", ok))]
               IN smtp' = IF ok THEN [s EXCEPT !.pc = "sendmail"] ELSE Raised(s)
       ELSE smtp' = [smtp EXCEPT !.pc = "sendmail"]
    /\ UNCHANGED <<clock, file, tmp, inv, mainAll>>

\* s.sendmail(EMAIL_FROM, EMAIL_TO, msg.as_string())
SmtpSendmail ==
    /\ smtp.pc = "sendmail"
    /\ \E ok \in BOOLEAN :
          LET s == [smtp EXCEPT !.log = Append(@, Cmd("sendmail", ok))]
          IN smtp' = IF ok THEN [s EXCEPT !.pc = "quit"] ELSE Raised(s)
    /\ UNCHANGED <<clock, file, tmp, inv, mainAll>>

\* The end of the with block (SMTP.__exit__ sends QUIT and raises on a reply
\* other than 221), then return True.
SmtpQuit ==
    /\ smtp.pc = "quit"
    /\ \E ok \in BOOLEAN :
          LET s == [smtp EXCEPT !.log = Append(@, Cmd("quit", ok))]
          IN smtp' = IF ok THEN [s EXCEPT !.pc = "returned", !.result = "true"]
                     ELSE Raised(s)
    /\ UNCHANGED <<clock, file, tmp, inv, mainAll>>

NextSend ==
    \/ SmtpCheckConfig
    \/ SmtpConnect
    \/ SmtpEhlo
    \/ SmtpStartTls
    \/ SmtpLogin
    \/ SmtpSendmail
    \/ SmtpQuit

SpecSend == InitSend /\ [][NextSend]_vars

\* The positions in the log of the commands op.
Issued(op) == {k \in DOMAIN smtp.log : smtp.log[k].op = op}

\* C16: without host, port or recipients send_email returns False and opens
\* no connection; otherwise it opens one connection, attempts STARTTLS and
\* goes on when the upgrade raises, logs in iff user and password are both
\* set, dispatches the message once after these steps, returns True only
\* after a dispatch that did not raise, and lets an exception of the
\* connection, the login or the dispatch reach its caller.
C16_SendProtocol ==
    /\ ~Configured(smtp) =>
          /\ smtp.log = <<>>
          /\ smtp.pc \in {"start", "returned"}
          /\ smtp.pc = "returned" => smtp.result = "false"
    /\ Cardinality(Issued("connect")) <= 1
    /\ Cardinality(Issued("sendmail")) <= 1
    /\ Issued("login") # {} <=>
          (/\ smtp.user /\ smtp.pass
           /\ smtp.pc \in {"sendmail", "quit", "returned", "raised"}
           /\ Issued("starttls") # {})
    /\ \A k \in Issued("sendmail") :
          /\ \E j \in Issued("connect") : j < k /\ smtp.log[j].ok
          /\ \E j \in Issued("starttls") : j < k
          /\ \A j \in Issued("login") : j < k /\ smtp.log[j].ok
    /\ smtp.pc \in {"quit", "returned"} /\ Configured(smtp) =>
          Cardinality(Issued("sendmail")) = 1
    /\ smtp.result = "true" =>
          /\ smtp.pc = "returned"
          /\ \E k \in Issued("sendmail") : smtp.log[k].ok
    /\ smtp.result = "false" => ~Configured(smtp)
    /\ \A k \in DOMAIN smtp.log :
          (~smtp.log[k].ok /\ smtp.log[k].op \notin {"starttls", "ehlo_tls"}) =>
              /\ k = Len(smtp.log)
              /\ smtp.pc = "raised"
              /\ smtp.result = "raise"

C16_Witness ==
    /\ smtp.result = "true"
    /\ smtp.user /\ smtp.pass
    /\ \E k \in Issued("starttls") : ~smtp.log[k].ok

\* C17: over serialized runs whose saved state is read back as written, once
\* an email containing a key has been dispatched and that run's state saved,
\* the key stays in the file's notified map and no later run has an item with
\* that key in new_items, so no key is in two such emails.
C17_NoSecondDelivery ==
    /\ delivered \subseteq file.notified
    /\ (new_items # <<>>
          /\ ~(pc = "done" /\ sendResult = "true" /\ saveResult = "ok"))
        => KeysOf(new_items) \cap delivered = {}
    /\ sendResult = "true" => rendered = new_items

C17_Witness ==
    /\ pc = "persist"
    /\ sendResult = "true"
    /\ Len(items) = 2
    /\ Len(rendered) = 1
    /\ delivered # {}
    /\ KeysOf(items) \ KeysOf(rendered) \subseteq delivered

\* ------------------------------------------------ invocations for ever
\* The scheduler starts the process again and again and every started run
\* goes on to its end: no step of the program stays enabled for ever without
\* being taken.  The hour is that of the first invocation.
NextLive ==
    \/ LoadState
    \/ IntervalGuard
    \/ HttpAttempt
    \/ FetchEndpoint
    \/ MainFetchFailed
    \/ Dedupe
    \/ Render
    \/ SendEmail
    \/ Persist
    \/ Exit

SpecLive == Init /\ [][NextLive]_vars /\ WF_vars(NextLive)

\* A run that passed the guard and fetched a list holding key k, whose send
\* (if there was anything to send) returned True and whose save succeeded.
GoodRun(k) ==
    /\ pc = "done"
    /\ Did("dedupe")
    /\ k \in KeysOf(items)
    /\ new_items = <<>> \/ sendResult = "true"
    /\ saveResult = "ok"

\* Key k is in the saved notified map, and was in an email that was sent.
Recorded(k) == k \in file.notified /\ k \in delivered

LiveKeys == {Key(ItemOf(GoodA)), Key(ItemOf(GoodB))}

\* C18: when invocations recur for ever and, infinitely often, a run that
\* fetches the item passes the guard with fetch, send and save succeeding,
\* the item's key is eventually in the saved notified map, having been in a
\* sent email; failed sends of earlier runs do not prevent it.
C18_EventuallyRecorded ==
    \A k \in LiveKeys : ([]<>GoodRun(k)) => <>Recorded(k)

C18_Witness ==
    /\ prev.outcome = "ran"
    /\ prev.sendResult \in {"false", "raise"}
    /\ prev.items # <<>>
    /\ items = prev.items
    /\ \A k \in KeysOf(items) : GoodRun(k) /\ Recorded(k)
    /\ sendResult = "true"

\* ------------------------------------------------ overlapping invocations
\* Two processes started by the scheduler without regard to one another, on
\* the same STATE and the same STATE + ".tmp"; nothing in the code locks
\* either file.
InitConc ==
    /\ clock = 0
    /\ file = MissingFile
    /\ tmp = MissingFile
    /\ inv = [p \in Procs |-> IdleInv]
    /\ smtp = NoSession
    /\ MainIdle

NextConc ==
    \E p \in Procs :
        \/ PLoad(p)
        \/ PRun(p)
        \/ SaveOpen(p)
        \/ SaveDump(p)
        \/ SaveClose(p)
        \/ SaveReplace(p)
        \/ Interrupt(p)

SpecConc == InitConc /\ [][NextConc]_vars

\* C19 (as claimed): with two invocations overlapping, the state file is
\* never left partially written and no step takes a saved key out of it.
C19_OverlapIsSafe ==
    [][/\ file'.content \in {"none", "document"}
       /\ file.notified \subseteq file'.notified]_vars

\* Invocation p replaces the state file in this step, and no other
\* invocation has run since p started.
SerializedSave(p) ==
    /\ inv[p].pc = "save_replace"
    /\ inv'[p].pc = "idle"
    /\ ~inv[p].overlap
    /\ file' # file

\* C19 (amended): an invocation during which no other invocation runs leaves
\* the state file a complete document that keeps every key saved before;
\* nothing of the kind holds for invocations that overlap.
C19_SerializedIsSafe ==
    [][\A p \in Procs :
          SerializedSave(p) =>
              /\ file' = Document(inv[p].state)
              /\ file.notified \subseteq file'.notified]_vars

C19_Witness ==
    \E p \in Procs :
        /\ inv[p].pc = "save_replace"
        /\ ~inv[p].overlap
        /\ tmp = Document(inv[p].state)
        /\ file.content = "document"
        /\ file.notified # {}
        /\ file.notified # tmp.notified

====
